---- MODULE Spec2Model ----
(***************************************************************************)
(* Model of panoptoindexconnector/connector.py: the polling loop run(),    *)
(* one pass sync(), the checkpoint file read by get_last_update_time and   *)
(* appended to by save_last_update_time, and the Panopto source that       *)
(* get_ids_to_update lists.                                                *)
(*                                                                         *)
(* Time is counted in ticks, Res ticks to the second, so that a datetime   *)
(* with a fractional part (datetime.utcnow(), the UpdateTime of a change)  *)
(* differs from the same datetime cut to whole seconds.                    *)
(***************************************************************************)
EXTENDS Integers, Sequences, FiniteSets, TLC

\* ---------------------------------------------------------------- bounds
\* ticks per second
Res == 2
\* changes the source holds at most
MaxRecords == 3
\* records the source puts on one page at most
MaxPageSize == 2
\* lines of the checkpoint file at most
MaxLines == 2
\* config.polling_frequency and config.polling_retry_minimum, in ticks
PollingFrequency == 3
PollingRetryMinimum == 1
\* range(1000) of sync(), scaled down
PageCeiling == 2

\* ------------------------------------------------------ program constants
\* time.sleep(2) of sync(), in seconds
ItemDelay == 2
\* datetime(2008, 1, 1) of get_last_update_time: tick 0 of the model
DefaultUpdateTime == 0
\* Python's None for next_token
None == -1

\* the clock reading when the connector process starts: one second after tick 0
InitNow == Res
\* the watermarks the checkpoint file may hold when the connector starts: tick
\* 0, the last tick before InitNow (not a whole second) and InitNow
InitTimes == {0, InitNow - 1, InitNow}
\* the times of the changes made before the connector starts: the last tick
\* before InitNow (not a whole second) and InitNow
ChangeTimes == {InitNow - 1, InitNow}
\* the ticks a request for the token or for a page takes: it is answered
\* within the tick or in the next one
Latencies == {0, 1}
\* the clock stops the model here: room for the sleeps of a pass that reaches
\* the page ceiling
MaxTime == InitNow + PageCeiling * ItemDelay * Res

VARIABLES
    now,                    \* the clock, datetime.utcnow()
    catalog,                \* source: change times, in listing order; VideoId = index
    synced,                 \* VideoIds with a successful sync_video_by_id
    file,                   \* the lines of ~/.panopto-connector.<implementation>
    pc,                     \* position of run()
    last_update_time,       \* run(): last_update_time
    start_time,             \* run(): start_time
    remaining_time,         \* run(): remaining_time
    exception,              \* sync(): exception, as returned to run()
    sync_last_update_time,  \* sync(): its parameter last_update_time
    sync_start_time,        \* sync(): start_time
    new_last_update_time,   \* sync(): new_last_update_time
    next_token,             \* sync(): next_token
    page_iter,              \* sync(): iterations of range(1000) begun
    updates,                \* sync(): records of get_ids_response not yet iterated
    response_next_token,    \* sync(): get_ids_response['NextToken']
    enum_calls,             \* get_ids_to_update calls of this pass
    enum_log,               \* the calls of this pass: arguments and answer
    received,               \* records the responses of this pass held
    sync_calls,             \* sync_video_by_id calls of this pass
    item_log,               \* the sync_video_by_id call that just ended: what it
                            \* fetched, the calls it made, whether it raised
    sleeps,                 \* time.sleep(2) calls of this pass
    applied,                \* VideoIds synced with success in this pass, in order
    ceiling_hit,            \* the for loop's else branch was taken in this pass
    fail_step,              \* which call raised: "none", "token", "enumerate", "item", "save"
    last_returned           \* the watermark the last pass that returned gave run(),
                            \* None before any pass has returned

vars == <<now, catalog, synced, file, pc, last_update_time, start_time,
          remaining_time, exception, sync_last_update_time, sync_start_time,
          new_last_update_time, next_token, page_iter, updates,
          response_next_token, enum_calls, enum_log, received, sync_calls,
          item_log, sleeps, applied,
          ceiling_hit, fail_step, last_returned>>

envVars == <<now, catalog, synced>>
runVars == <<last_update_time, start_time, remaining_time>>
syncVars == <<exception, sync_last_update_time, sync_start_time,
              new_last_update_time, next_token, page_iter, updates,
              response_next_token>>
obsVars == <<enum_calls, enum_log, received, sync_calls, item_log, sleeps,
            applied, ceiling_hit, fail_step>>

\* isoformat with a slip: the fraction is never written
isoformat_seconds(t) == <<t \div Res>>

\* ------------------------------------------------------------ conversions
\* datetime.isoformat(): the fraction is written only when it is not zero
isoformat(t) ==
    IF t % Res = 0 THEN <<t \div Res>> ELSE <<t \div Res, t % Res>>

\* datetime.fromisoformat(line.strip())
fromisoformat(s) ==
    IF Len(s) = 1 THEN s[1] * Res ELSE s[1] * Res + s[2]

\* the UpdateTime string of a change record, as the source sends it
UpdateTimeStr(t) == <<t \div Res, t % Res>>

\* update['UpdateTime'].split('.')[0] parsed with '%Y-%m-%dT%H:%M:%S'
ParseUpdateTime(s) == s[1] * Res

\* ------------------------------------------------------- checkpoint store
get_last_update_time(f) ==
    IF Len(f) = 0 THEN DefaultUpdateTime ELSE fromisoformat(f[Len(f)])

save_last_update_time(f, t) == Append(f, isoformat(t))

\* ----------------------------------------------------------------- source
\* VideoIds the updates endpoint lists for fromDate, in listing order
RECURSIVE ListFrom(_, _, _)
ListFrom(cat, from, i) ==
    IF i > Len(cat) THEN <<>>
    ELSE IF cat[i] >= from THEN <<i>> \o ListFrom(cat, from, i + 1)
    ELSE ListFrom(cat, from, i + 1)

Listing(cat, from) == ListFrom(cat, from, 1)

\* the response of the content endpoint for a video
VideoContent(video_id, deleted) == [Id |-> video_id, Deleted |-> deleted]

\* the calls sync_video_by_id may find raising
ItemCalls == {"get_video_content", "delete_from_target", "convert_to_target",
              "push_to_target"}

\* no sync_video_by_id call has just ended
NoItem == [video_id |-> None, Deleted |-> FALSE, calls |-> <<>>, raised |-> FALSE]

\* sync_video_by_id with a slip: the Deleted mark is not looked at
sync_video_by_id_upserts(video_id, video_content_response, raising) ==
    LET get == <<"get_video_content", video_id>>
        id == video_content_response.Id
    IN  IF raising = "get_video_content"
        THEN [calls |-> <<get>>, raised |-> TRUE]
        ELSE IF raising = "convert_to_target"
        THEN [calls |-> <<get, <<"convert_to_target", id>>>>, raised |-> TRUE]
        ELSE [calls |-> <<get, <<"convert_to_target", id>>,
                          <<"push_to_target", id>>>>,
              raised |-> raising \in {"push_to_target", "delete_from_target"}]

\* sync_video_by_id: the calls it makes, in order, each with the id it is
\* about, and whether it raises; raising is the call that raises when it is
\* made ("none": no call raises)
sync_video_by_id(video_id, video_content_response, raising) ==
    LET get == <<"get_video_content", video_id>>
        id == video_content_response.Id
    IN  IF raising = "get_video_content"
        THEN [calls |-> <<get>>, raised |-> TRUE]
        ELSE IF video_content_response.Deleted
        THEN [calls |-> <<get, <<"delete_from_target", id>>>>,
              raised |-> raising = "delete_from_target"]
        ELSE IF raising = "convert_to_target"
        THEN [calls |-> <<get, <<"convert_to_target", id>>>>, raised |-> TRUE]
        ELSE [calls |-> <<get, <<"convert_to_target", id>>,
                          <<"push_to_target", id>>>>,
              raised |-> raising = "push_to_target"]

\* the offset a cursor stands for
Offset(token) == IF token = None THEN 0 ELSE token

TypeOK ==
    /\ now \in 0..MaxTime
    /\ Len(catalog) <= MaxRecords
    /\ synced \subseteq 1..MaxRecords
    /\ Len(file) <= MaxLines
    /\ pc \in {"start", "loop", "token", "enumerate", "apply", "sleep",
               "return", "save", "wait", "crashed"}

Init ==
    /\ now = InitNow
    /\ catalog \in UNION {[1..n -> ChangeTimes] : n \in 0..MaxRecords}
    /\ synced = {}
    /\ file \in {<<>>} \cup {<<isoformat(t)>> : t \in InitTimes}
    /\ pc = "start"
    /\ last_update_time = DefaultUpdateTime
    /\ start_time = 0
    /\ remaining_time = 0
    /\ exception = "None"
    /\ sync_last_update_time = DefaultUpdateTime
    /\ sync_start_time = 0
    /\ new_last_update_time = DefaultUpdateTime
    /\ next_token = None
    /\ page_iter = 0
    /\ updates = <<>>
    /\ response_next_token = None
    /\ enum_calls = 0
    /\ enum_log = <<>>
    /\ received = 0
    /\ sync_calls = 0
    /\ item_log = NoItem
    /\ sleeps = 0
    /\ applied = <<>>
    /\ ceiling_hit = FALSE
    /\ fail_step = "none"
    /\ last_returned = None

\* ------------------------------------------------------------ environment
\* a video changes at the source while a pass runs, before a page of the
\* listing is requested: a new change record stamped with the clock
SourceUpdate ==
    /\ pc = "enumerate"
    /\ Len(catalog) < MaxRecords
    /\ catalog' = Append(catalog, now)
    /\ UNCHANGED <<now, synced, file, pc>>
    /\ UNCHANGED <<runVars, syncVars, obsVars>>
    /\ UNCHANGED last_returned

\* ------------------------------------------------------------------ run()
\* run(), line 159
Load ==
    /\ pc = "start"
    /\ last_update_time' = get_last_update_time(file)
    /\ pc' = "loop"
    /\ UNCHANGED <<envVars, file, start_time, remaining_time>>
    /\ UNCHANGED <<syncVars, obsVars>>
    /\ UNCHANGED last_returned

\* run(), lines 162-165: start_time is taken and sync() is entered
BeginPass ==
    /\ pc = "loop"
    /\ Len(file) < MaxLines
    /\ start_time' = now
    /\ sync_last_update_time' = last_update_time
    /\ enum_calls' = 0
    /\ enum_log' = <<>>
    /\ received' = 0
    /\ sync_calls' = 0
    /\ item_log' = NoItem
    /\ sleeps' = 0
    /\ applied' = <<>>
    /\ ceiling_hit' = FALSE
    /\ fail_step' = "none"
    /\ pc' = "token"
    /\ UNCHANGED <<envVars, file, last_update_time, remaining_time>>
    /\ UNCHANGED <<exception, sync_start_time, new_last_update_time, next_token,
                   page_iter, updates, response_next_token>>
    /\ UNCHANGED last_returned

\* ----------------------------------------------------------------- sync()
\* sync(), lines 189-193: the token is obtained and the locals are set
GetTokenOk ==
    /\ pc = "token"
    /\ \E d \in Latencies :
         /\ now + d <= MaxTime
         /\ now' = now + d
    /\ next_token' = None
    /\ exception' = "None"
    /\ sync_start_time' = now'
    /\ new_last_update_time' = sync_last_update_time
    /\ page_iter' = 0
    /\ updates' = <<>>
    /\ response_next_token' = None
    /\ pc' = "enumerate"
    /\ UNCHANGED <<catalog, synced, file, runVars, sync_last_update_time, obsVars>>
    /\ UNCHANGED last_returned

\* sync(), line 189: get_oauth_token raises outside the try block, so the
\* exception leaves sync() and run()
GetTokenFail ==
    /\ pc = "token"
    /\ fail_step' = "token"
    /\ pc' = "crashed"
    /\ UNCHANGED <<envVars, file, runVars, syncVars>>
    /\ UNCHANGED <<enum_calls, enum_log, received, sync_calls, item_log, sleeps,
                   applied, ceiling_hit>>
    /\ UNCHANGED last_returned

\* EnumerateOk with a slip: the listing is asked from the candidate watermark
EnumerateOkFromCandidate ==
    /\ pc = "enumerate"
    /\ \E d \in Latencies :
         /\ now + d <= MaxTime
         /\ now' = now + d
    /\ LET listing == Listing(catalog, new_last_update_time)
           off == Offset(next_token)
           rest == Len(listing) - off
       IN  \E n \in 0..MaxPageSize :
             /\ n <= rest
             /\ (n = 0) => (rest <= 0)
             /\ updates' = SubSeq(listing, off + 1, off + n)
             /\ received' = received + n
             /\ response_next_token' = IF off + n < Len(listing) THEN off + n ELSE None
             /\ enum_log' = Append(enum_log,
                    [from_date |-> new_last_update_time, next_token |-> next_token,
                     raised |-> FALSE,
                     NextToken |-> IF off + n < Len(listing) THEN off + n ELSE None])
    /\ enum_calls' = enum_calls + 1
    /\ pc' = "apply"
    /\ UNCHANGED <<catalog, synced, file, runVars>>
    /\ UNCHANGED <<exception, sync_last_update_time, sync_start_time,
                   new_last_update_time, next_token, page_iter>>
    /\ UNCHANGED <<sync_calls, item_log, sleeps, applied, ceiling_hit, fail_step>>
    /\ UNCHANGED last_returned

\* sync(), line 197: one page of the listing from last_update_time
EnumerateOk ==
    /\ pc = "enumerate"
    /\ \E d \in Latencies :
         /\ now + d <= MaxTime
         /\ now' = now + d
    /\ LET listing == Listing(catalog, sync_last_update_time)
           off == Offset(next_token)
           rest == Len(listing) - off
       IN  \E n \in 0..MaxPageSize :
             /\ n <= rest
             /\ (n = 0) => (rest <= 0)
             /\ updates' = SubSeq(listing, off + 1, off + n)
             /\ received' = received + n
             /\ response_next_token' = IF off + n < Len(listing) THEN off + n ELSE None
             /\ enum_log' = Append(enum_log,
                    [from_date |-> sync_last_update_time, next_token |-> next_token,
                     raised |-> FALSE,
                     NextToken |-> IF off + n < Len(listing) THEN off + n ELSE None])
    /\ enum_calls' = enum_calls + 1
    /\ pc' = "apply"
    /\ UNCHANGED <<catalog, synced, file, runVars>>
    /\ UNCHANGED <<exception, sync_last_update_time, sync_start_time,
                   new_last_update_time, next_token, page_iter>>
    /\ UNCHANGED <<sync_calls, item_log, sleeps, applied, ceiling_hit, fail_step>>
    /\ UNCHANGED last_returned

\* EnumerateFail with a slip: the failure puts the candidate back to the input
EnumerateFailResets ==
    /\ pc = "enumerate"
    /\ enum_calls' = enum_calls + 1
    /\ enum_log' = Append(enum_log,
           [from_date |-> sync_last_update_time, next_token |-> next_token,
            raised |-> TRUE, NextToken |-> None])
    /\ exception' = "HTTPError"
    /\ fail_step' = "enumerate"
    /\ new_last_update_time' = sync_last_update_time
    /\ pc' = "return"
    /\ UNCHANGED <<envVars, file, runVars>>
    /\ UNCHANGED <<sync_last_update_time, sync_start_time,
                   next_token, page_iter, updates, response_next_token>>
    /\ UNCHANGED <<received, sync_calls, item_log, sleeps,
                   applied, ceiling_hit>>
    /\ UNCHANGED last_returned

\* sync(), lines 197 and 215-219: get_ids_to_update raises
EnumerateFail ==
    /\ pc = "enumerate"
    /\ enum_calls' = enum_calls + 1
    /\ enum_log' = Append(enum_log,
           [from_date |-> sync_last_update_time, next_token |-> next_token,
            raised |-> TRUE, NextToken |-> None])
    /\ exception' = "HTTPError"
    /\ fail_step' = "enumerate"
    /\ pc' = "return"
    /\ UNCHANGED <<envVars, file, runVars>>
    /\ UNCHANGED <<sync_last_update_time, sync_start_time, new_last_update_time,
                   next_token, page_iter, updates, response_next_token>>
    /\ UNCHANGED <<received, sync_calls, item_log, sleeps,
                   applied, ceiling_hit>>
    /\ UNCHANGED last_returned

\* SyncItemOk with a slip: the loop goes on without time.sleep(2)
SyncItemOkNoSleep ==
    /\ pc = "apply"
    /\ updates # <<>>
    /\ LET video_id == Head(updates)
           update_time == ParseUpdateTime(UpdateTimeStr(catalog[video_id]))
       IN  /\ synced' = synced \cup {video_id}
           /\ applied' = Append(applied, video_id)
           /\ new_last_update_time' = update_time
    /\ item_log' = NoItem
    /\ sync_calls' = sync_calls + 1
    /\ updates' = Tail(updates)
    /\ pc' = "apply"
    /\ UNCHANGED <<now, catalog, file, runVars>>
    /\ UNCHANGED <<exception, sync_last_update_time, sync_start_time, next_token,
                   page_iter, response_next_token>>
    /\ UNCHANGED <<enum_calls, enum_log, received, sleeps, ceiling_hit, fail_step>>
    /\ UNCHANGED last_returned

\* sync(), lines 198-206: the next record of the page is synced
SyncItemOk ==
    /\ pc = "apply"
    /\ updates # <<>>
    /\ LET video_id == Head(updates)
           update_time == ParseUpdateTime(UpdateTimeStr(catalog[video_id]))
       IN  /\ \E deleted \in BOOLEAN :
                LET r == sync_video_by_id(video_id,
                                          VideoContent(video_id, deleted), "none")
                IN  /\ ~r.raised
                    /\ item_log' = [video_id |-> video_id, Deleted |-> deleted,
                                    calls |-> r.calls, raised |-> FALSE]
           /\ synced' = synced \cup {video_id}
           /\ applied' = Append(applied, video_id)
           /\ new_last_update_time' = update_time
    /\ sync_calls' = sync_calls + 1
    /\ updates' = Tail(updates)
    /\ pc' = "sleep"
    /\ UNCHANGED <<now, catalog, file, runVars>>
    /\ UNCHANGED <<exception, sync_last_update_time, sync_start_time, next_token,
                   page_iter, response_next_token>>
    /\ UNCHANGED <<enum_calls, enum_log, received, sleeps, ceiling_hit, fail_step>>
    /\ UNCHANGED last_returned

\* SyncItemFail with a slip: the failure is noted and the loop goes on with the
\* next record
SyncItemFailContinues ==
    /\ pc = "apply"
    /\ updates # <<>>
    /\ \E deleted \in BOOLEAN, raising \in ItemCalls :
         LET video_id == Head(updates)
             r == sync_video_by_id(video_id, VideoContent(video_id, deleted),
                                   raising)
         IN  /\ r.raised
             /\ (raising = "get_video_content") => ~deleted
    /\ item_log' = NoItem
    /\ sync_calls' = sync_calls + 1
    /\ exception' = "Exception"
    /\ fail_step' = "item"
    /\ updates' = Tail(updates)
    /\ pc' = "apply"
    /\ UNCHANGED <<envVars, file, runVars>>
    /\ UNCHANGED <<sync_last_update_time, sync_start_time, new_last_update_time,
                   next_token, page_iter, response_next_token>>
    /\ UNCHANGED <<enum_calls, enum_log, received, sleeps, applied, ceiling_hit>>
    /\ UNCHANGED last_returned

\* SyncItemFail with a slip: new_last_update_time is assigned before the call
SyncItemFailAdvances ==
    /\ pc = "apply"
    /\ updates # <<>>
    /\ \E deleted \in BOOLEAN, raising \in ItemCalls :
         LET video_id == Head(updates)
             r == sync_video_by_id(video_id, VideoContent(video_id, deleted),
                                   raising)
         IN  /\ r.raised
             /\ (raising = "get_video_content") => ~deleted
             /\ item_log' = [video_id |-> video_id, Deleted |-> deleted,
                             calls |-> r.calls, raised |-> TRUE]
    /\ sync_calls' = sync_calls + 1
    /\ new_last_update_time' =
           ParseUpdateTime(UpdateTimeStr(catalog[Head(updates)]))
    /\ exception' = "Exception"
    /\ fail_step' = "item"
    /\ pc' = "return"
    /\ UNCHANGED <<envVars, file, runVars>>
    /\ UNCHANGED <<sync_last_update_time, sync_start_time,
                   next_token, page_iter, updates, response_next_token>>
    /\ UNCHANGED <<enum_calls, enum_log, received, sleeps, applied, ceiling_hit>>
    /\ UNCHANGED last_returned

\* sync(), lines 205 and 215-219: sync_video_by_id raises
SyncItemFail ==
    /\ pc = "apply"
    /\ updates # <<>>
    /\ \E deleted \in BOOLEAN, raising \in ItemCalls :
         LET video_id == Head(updates)
             r == sync_video_by_id(video_id, VideoContent(video_id, deleted),
                                   raising)
         IN  /\ r.raised
             /\ (raising = "get_video_content") => ~deleted
             /\ item_log' = [video_id |-> video_id, Deleted |-> deleted,
                             calls |-> r.calls, raised |-> TRUE]
    /\ sync_calls' = sync_calls + 1
    /\ exception' = "Exception"
    /\ fail_step' = "item"
    /\ pc' = "return"
    /\ UNCHANGED <<envVars, file, runVars>>
    /\ UNCHANGED <<sync_last_update_time, sync_start_time, new_last_update_time,
                   next_token, page_iter, updates, response_next_token>>
    /\ UNCHANGED <<enum_calls, enum_log, received, sleeps, applied, ceiling_hit>>
    /\ UNCHANGED last_returned

\* sync(), line 208: time.sleep(2); sync_video_by_id has returned and what it
\* held is gone
Sleep ==
    /\ pc = "sleep"
    /\ now + ItemDelay * Res <= MaxTime
    /\ now' = now + ItemDelay * Res
    /\ sleeps' = sleeps + 1
    /\ item_log' = NoItem
    /\ pc' = "apply"
    /\ UNCHANGED <<catalog, synced, file, runVars, syncVars>>
    /\ UNCHANGED <<enum_calls, enum_log, received, sync_calls, applied,
                   ceiling_hit, fail_step>>
    /\ UNCHANGED last_returned

\* EndPage with a slip: the ceiling is looked at before the cursor
EndPageCeilingFirst ==
    /\ pc = "apply"
    /\ updates = <<>>
    /\ next_token' = response_next_token
    /\ page_iter' = page_iter + 1
    /\ IF page_iter + 1 >= PageCeiling
       THEN /\ pc' = "return"
            /\ ceiling_hit' = TRUE
       ELSE IF response_next_token = None
            THEN /\ pc' = "return"
                 /\ ceiling_hit' = FALSE
            ELSE /\ pc' = "enumerate"
                 /\ ceiling_hit' = FALSE
    /\ UNCHANGED <<envVars, file, runVars>>
    /\ UNCHANGED <<exception, sync_last_update_time, sync_start_time,
                   new_last_update_time, updates, response_next_token>>
    /\ UNCHANGED <<enum_calls, enum_log, received, sync_calls, item_log, sleeps,
                   applied, fail_step>>
    /\ UNCHANGED last_returned

\* EndPage with a slip: the loop runs one iteration more than the ceiling
EndPageOffByOne ==
    /\ pc = "apply"
    /\ updates = <<>>
    /\ next_token' = response_next_token
    /\ page_iter' = page_iter + 1
    /\ IF response_next_token = None
       THEN /\ pc' = "return"
            /\ ceiling_hit' = FALSE
       ELSE IF page_iter + 1 > PageCeiling
            THEN /\ pc' = "return"
                 /\ ceiling_hit' = TRUE
            ELSE /\ pc' = "enumerate"
                 /\ ceiling_hit' = FALSE
    /\ UNCHANGED <<envVars, file, runVars>>
    /\ UNCHANGED <<exception, sync_last_update_time, sync_start_time,
                   new_last_update_time, updates, response_next_token>>
    /\ UNCHANGED <<enum_calls, enum_log, received, sync_calls, item_log, sleeps,
                   applied, fail_step>>
    /\ UNCHANGED last_returned

\* sync(), lines 209-214: the page is done
EndPage ==
    /\ pc = "apply"
    /\ updates = <<>>
    /\ next_token' = response_next_token
    /\ page_iter' = page_iter + 1
    /\ IF response_next_token = None
       THEN /\ pc' = "return"
            /\ ceiling_hit' = FALSE
       ELSE IF page_iter + 1 >= PageCeiling
            THEN /\ pc' = "return"
                 /\ ceiling_hit' = TRUE
            ELSE /\ pc' = "enumerate"
                 /\ ceiling_hit' = FALSE
    /\ UNCHANGED <<envVars, file, runVars>>
    /\ UNCHANGED <<exception, sync_last_update_time, sync_start_time,
                   new_last_update_time, updates, response_next_token>>
    /\ UNCHANGED <<enum_calls, enum_log, received, sync_calls, item_log, sleeps,
                   applied, fail_step>>
    /\ UNCHANGED last_returned

\* what Return does once the watermark sync() returns is known; what the
\* sync_video_by_id call that raised held is gone
ReturnWith(result) ==
    /\ pc = "return"
    /\ new_last_update_time' = result
    /\ last_update_time' = result
    /\ remaining_time' = IF exception # "None" THEN PollingRetryMinimum
                         ELSE start_time + PollingFrequency - now
    /\ pc' = "save"
    /\ UNCHANGED <<envVars, file, start_time>>
    /\ UNCHANGED <<exception, sync_last_update_time, sync_start_time, next_token,
                   page_iter, updates, response_next_token>>
    /\ item_log' = NoItem
    /\ last_returned' = result
    /\ UNCHANGED <<enum_calls, enum_log, received, sync_calls, sleeps, applied,
                   ceiling_hit, fail_step>>

\* Return with a slip: the idle time after a failure is taken from the cadence
ReturnCadenceAlways ==
    /\ pc = "return"
    /\ new_last_update_time' = (IF exception = "None" THEN sync_start_time
                                ELSE new_last_update_time)
    /\ last_update_time' = new_last_update_time'
    /\ last_returned' = new_last_update_time'
    /\ remaining_time' = start_time + PollingFrequency - now
    /\ item_log' = NoItem
    /\ pc' = "save"
    /\ UNCHANGED <<envVars, file, start_time>>
    /\ UNCHANGED <<exception, sync_last_update_time, sync_start_time, next_token,
                   page_iter, updates, response_next_token>>
    /\ UNCHANGED <<enum_calls, enum_log, received, sync_calls, sleeps, applied,
                   ceiling_hit, fail_step>>

\* Return with a slip: the pass start time is returned after a failure too
ReturnAlwaysStart == ReturnWith(sync_start_time)

\* Return with a slip: the candidate is returned after a completed pass too
ReturnKeepsCandidate == ReturnWith(new_last_update_time)

\* Return with a slip: a completed pass returns the time it ended
ReturnUsesNow ==
    ReturnWith(IF exception = "None" THEN now ELSE new_last_update_time)

\* sync(), lines 221-224, and run(), lines 165-173
Return ==
    ReturnWith(IF exception = "None" THEN sync_start_time
               ELSE new_last_update_time)

\* SaveOk with a slip: the watermark the pass was given is appended, not the
\* one it returned
SaveOkStale ==
    /\ pc = "save"
    /\ file' = save_last_update_time(file, sync_last_update_time)
    /\ pc' = "wait"
    /\ UNCHANGED <<envVars, runVars, syncVars, obsVars>>
    /\ UNCHANGED last_returned

\* run(), line 175
SaveOk ==
    /\ pc = "save"
    /\ file' = save_last_update_time(file, last_update_time)
    /\ pc' = "wait"
    /\ UNCHANGED <<envVars, runVars, syncVars, obsVars>>
    /\ UNCHANGED last_returned

\* SaveFail with a slip: run() catches the error of the write and goes on
SaveFailSwallowed ==
    /\ pc = "save"
    /\ fail_step' = "save"
    /\ pc' = "wait"
    /\ UNCHANGED <<envVars, file, runVars, syncVars>>
    /\ UNCHANGED <<enum_calls, enum_log, received, sync_calls, item_log, sleeps,
                   applied, ceiling_hit>>
    /\ UNCHANGED last_returned

\* run(), line 175: the write raises and nothing catches it
SaveFail ==
    /\ pc = "save"
    /\ fail_step' = "save"
    /\ pc' = "crashed"
    /\ UNCHANGED <<envVars, file, runVars, syncVars>>
    /\ UNCHANGED <<enum_calls, enum_log, received, sync_calls, item_log, sleeps,
                   applied, ceiling_hit>>
    /\ UNCHANGED last_returned

\* wait(), lines 227-237, and back to line 161; the locals of the pass that
\* ended are gone
Wait ==
    /\ pc = "wait"
    /\ IF remaining_time <= 0
       THEN now' = now
       ELSE /\ now + remaining_time <= MaxTime
            /\ now' = now + remaining_time
    /\ pc' = "loop"
    /\ start_time' = 0
    /\ remaining_time' = 0
    /\ exception' = "None"
    /\ sync_last_update_time' = DefaultUpdateTime
    /\ sync_start_time' = 0
    /\ new_last_update_time' = DefaultUpdateTime
    /\ next_token' = None
    /\ page_iter' = 0
    /\ updates' = <<>>
    /\ response_next_token' = None
    /\ enum_calls' = 0
    /\ enum_log' = <<>>
    /\ received' = 0
    /\ sync_calls' = 0
    /\ item_log' = NoItem
    /\ sleeps' = 0
    /\ applied' = <<>>
    /\ ceiling_hit' = FALSE
    /\ fail_step' = "none"
    /\ UNCHANGED <<catalog, synced, file, last_update_time>>
    /\ UNCHANGED last_returned

\* the process is killed while wait() sleeps and is started again when the
\* sleep would have ended: run() is entered anew, line 159 is next
KillAndRestart ==
    /\ pc = "wait"
    /\ remaining_time > 0
    /\ now + remaining_time <= MaxTime
    /\ now' = now + remaining_time
    /\ pc' = "start"
    /\ last_update_time' = DefaultUpdateTime
    /\ start_time' = 0
    /\ remaining_time' = 0
    /\ exception' = "None"
    /\ sync_last_update_time' = DefaultUpdateTime
    /\ sync_start_time' = 0
    /\ new_last_update_time' = DefaultUpdateTime
    /\ next_token' = None
    /\ page_iter' = 0
    /\ updates' = <<>>
    /\ response_next_token' = None
    /\ enum_calls' = 0
    /\ enum_log' = <<>>
    /\ received' = 0
    /\ sync_calls' = 0
    /\ item_log' = NoItem
    /\ sleeps' = 0
    /\ applied' = <<>>
    /\ ceiling_hit' = FALSE
    /\ fail_step' = "none"
    /\ UNCHANGED <<catalog, synced, file, last_returned>>

Next ==
    \/ SourceUpdate
    \/ Load
    \/ BeginPass
    \/ GetTokenOk
    \/ GetTokenFail
    \/ EnumerateOk
    \/ EnumerateFail
    \/ SyncItemOk
    \/ SyncItemFail
    \/ Sleep
    \/ EndPage
    \/ Return
    \/ SaveOk
    \/ SaveFail
    \/ Wait
    \/ KillAndRestart

Spec == Init /\ [][Next]_vars

\* ------------------------------------------------------------ properties
\* a time cut to whole seconds
WholeSeconds(t) == t - (t % Res)

\* the watermark each line of the checkpoint file holds
Watermarks == [i \in 1..Len(file) |-> fromisoformat(file[i])]

\* the VideoId of the last record applied in this pass
LastApplied == applied[Len(applied)]

\* sync() has returned to run() and the outcome is not yet saved
Returned == pc = "save"

\* run() has appended the outcome of the pass and not yet waited
Persisted == pc = "wait"

\* VideoIds the source lists from the input watermark of this pass
Listed == {Listing(catalog, sync_last_update_time)[i] :
             i \in 1..Len(Listing(catalog, sync_last_update_time))}

\* C1: every watermark appended to the checkpoint file is greater than or
\* equal to the one before it, the first one appended being compared with the
\* watermark loaded at start.
MonotonicWatermark ==
    \A i \in 1..(Len(file) - 1) : Watermarks[i] <= Watermarks[i + 1]

\* C2: when run() has persisted a watermark W, no change record that the
\* source lists from the input watermark of the pass and that lies before W is
\* without a successful sync_video_by_id call. (The claim also covers records
\* stamped exactly W; a record before W is one that a listing from W no longer
\* holds.)
NeverPastUnapplied ==
    Persisted =>
        \A v \in Listed : catalog[v] < last_update_time => v \in synced

\* C3, as claimed: a pass that fails on a record after K >= 1 records were
\* applied returns the change timestamp of record K.
PartialProgressExactTimestamp ==
    (Returned /\ fail_step = "item" /\ applied # <<>>) =>
        last_update_time = catalog[LastApplied]

\* C3, amended: a pass that fails on a record after K >= 1 records were applied
\* returns a failure and the change timestamp of record K cut to whole seconds.
PartialProgressTruncated ==
    (Returned /\ fail_step = "item" /\ applied # <<>>) =>
        /\ exception # "None"
        /\ last_update_time = WholeSeconds(catalog[LastApplied])

PartialProgressWitness ==
    /\ Returned
    /\ fail_step = "item"
    /\ Len(applied) >= 2
    /\ catalog[LastApplied] % Res # 0
    /\ WholeSeconds(catalog[LastApplied]) # WholeSeconds(catalog[Head(updates)])
    /\ sync_last_update_time # WholeSeconds(catalog[LastApplied])

\* C4: after a pass that failed before any record was applied, the watermark
\* the checkpoint file holds is the input watermark of that pass: run() has
\* appended the input watermark again (enumeration or first record failed), or
\* run() has ended on the token failure and the file is as it was.
NoProgressNoAdvance ==
    /\ (Persisted /\ exception # "None" /\ applied = <<>>) =>
           get_last_update_time(file) = sync_last_update_time
    /\ (pc = "crashed" /\ fail_step = "token") =>
           get_last_update_time(file) = sync_last_update_time

NoProgressWitness ==
    /\ Persisted
    /\ fail_step = "item"
    /\ applied = <<>>
    /\ Len(file) >= 2
    /\ sync_last_update_time % Res # 0
    /\ catalog[Head(updates)] > sync_last_update_time
    /\ sync_start_time > sync_last_update_time

\* C5, as claimed: a pass that applies at least one record, all with success,
\* and ends on a null cursor returns the change timestamp of the last record
\* applied (whole or cut to seconds).
CompletedReturnsLastRecordTime ==
    (Returned /\ exception = "None" /\ ~ceiling_hit /\ applied # <<>>) =>
        last_update_time \in
            {catalog[LastApplied], WholeSeconds(catalog[LastApplied])}

\* C5, amended: such a pass completes with no failure and returns the pass
\* start time that sync() took before the first enumeration call.
CompletedReturnsPassStart ==
    (Returned /\ received >= 1 /\ Len(applied) = received /\ ~ceiling_hit
        /\ response_next_token = None /\ fail_step # "enumerate") =>
        /\ exception = "None"
        /\ last_update_time = sync_start_time

CompletedWitness ==
    /\ Returned
    /\ exception = "None"
    /\ ~ceiling_hit
    /\ Len(applied) >= 2
    /\ catalog[applied[1]] # catalog[LastApplied]
    /\ last_update_time # catalog[LastApplied]
    /\ last_update_time # WholeSeconds(catalog[LastApplied])

\* C6: a pass never makes more than PageCeiling enumeration calls; a pass
\* whose items all succeed and whose last page still has a next cursor has made
\* exactly PageCeiling calls, has taken the loop's else branch and returns no
\* failure, and run() then waits the normal cadence.
CeilingStopsAndCompletes ==
    /\ enum_calls <= PageCeiling
    /\ (pc \in {"return", "save", "wait"} /\ fail_step = "none"
           /\ response_next_token # None) =>
           (ceiling_hit /\ enum_calls = PageCeiling)
    /\ ceiling_hit => (enum_calls = PageCeiling /\ exception = "None")
    /\ (Returned /\ ceiling_hit) =>
           remaining_time = start_time + PollingFrequency - now

CeilingWitness ==
    /\ Returned
    /\ ceiling_hit
    /\ Len(applied) >= PageCeiling
    /\ response_next_token # None
    /\ remaining_time # PollingRetryMinimum

\* C7: a pass that stops at the page ceiling with pages outstanding returns
\* the change timestamp of the last record it applied, so that every record of
\* the pages it did not fetch is listed again from the returned watermark.
CeilingResumesFromReached ==
    (Returned /\ ceiling_hit /\ applied # <<>>) =>
        /\ last_update_time \in
               {catalog[LastApplied], WholeSeconds(catalog[LastApplied])}
        /\ \A v \in Listed : v \notin synced => catalog[v] >= last_update_time

\* C8: run() ends only on a checkpoint write failure; a failure of the token,
\* of the enumeration or of an item is returned to run() and retried.
OnlySaveFailureTerminates ==
    pc = "crashed" => fail_step = "save"

\* C9, as claimed: a pass in which a get_ids_to_update call fails returns the
\* input watermark of the pass.
EnumerationFailureKeepsInput ==
    (Returned /\ fail_step = "enumerate") =>
        last_update_time = sync_last_update_time

\* C9, amended: a pass in which a get_ids_to_update call fails returns a
\* failure and the candidate watermark as it stood before the call: the input
\* watermark when no record was applied yet, else the change timestamp of the
\* last record applied, cut to whole seconds; run() persists that value.
EnumerationFailureKeepsCandidate ==
    /\ (pc \in {"save", "wait"} /\ fail_step = "enumerate") =>
           /\ exception # "None"
           /\ last_update_time =
                  IF applied = <<>> THEN sync_last_update_time
                  ELSE WholeSeconds(catalog[LastApplied])
    /\ (Persisted /\ fail_step = "enumerate") =>
           get_last_update_time(file) = last_update_time

EnumerationFailureWitness ==
    /\ Persisted
    /\ fail_step = "enumerate"
    /\ enum_calls >= 2
    /\ applied # <<>>
    /\ last_update_time # sync_last_update_time

\* C10: a pass that receives one page with zero records and a null next cursor
\* completes with no failure, makes no sync_video_by_id call and returns the
\* pass start time that sync() took before the enumeration call.
EmptyPassAdvancesToStart ==
    (Returned /\ enum_calls = 1 /\ fail_step # "enumerate" /\ received = 0
        /\ response_next_token = None) =>
        /\ exception = "None"
        /\ sync_calls = 0
        /\ last_update_time = sync_start_time

EmptyPassWitness ==
    /\ Returned
    /\ enum_calls = 1
    /\ fail_step = "none"
    /\ received = 0
    /\ response_next_token = None
    /\ sync_start_time > start_time
    /\ now > sync_start_time
    /\ last_update_time > sync_last_update_time

\* the answer of the last get_ids_to_update call of this pass
LastResponse == enum_log[Len(enum_log)]

\* C11: a pass whose n-th page (1 <= n <= ceiling) is the first with a null
\* next cursor, and in which every record is synced with success, makes
\* exactly n get_ids_to_update calls, completes with no failure and does not
\* take the for loop's else branch; in no pass is a call made after a call that
\* answered with a null next cursor.
PaginationExhaustion ==
    /\ \A i \in 1..(Len(enum_log) - 1) :
           /\ enum_log[i].NextToken # None
           /\ ~enum_log[i].raised
    /\ (pc \in {"return", "save", "wait"} /\ fail_step = "none"
          /\ enum_log # <<>> /\ LastResponse.NextToken = None) =>
           /\ enum_calls = Len(enum_log)
           /\ enum_calls <= PageCeiling
           /\ sync_calls = received
           /\ exception = "None"
           /\ ~ceiling_hit

PaginationExhaustionWitness ==
    /\ Returned
    /\ fail_step = "none"
    /\ Len(enum_log) = PageCeiling
    /\ LastResponse.NextToken = None
    /\ \A i \in 1..(Len(enum_log) - 1) : enum_log[i].NextToken # None
    /\ sync_calls >= PageCeiling

\* C12: the idle wait is entered only by the step that appends exactly one
\* line, the watermark the pass returned, to the checkpoint file, and the file
\* changes in no other step; a pass begins with the last watermark of the file
\* as input, which is the watermark the pass before it returned; when the
\* process is killed in the idle wait and started again, get_last_update_time
\* gives run() the watermark the last pass returned.
PersistedBeforeIdle ==
    [][/\ (file' # file \/ (pc # "wait" /\ pc' = "wait")) =>
             /\ pc = "save"
             /\ pc' = "wait"
             /\ Len(file') = Len(file) + 1
             /\ SubSeq(file', 1, Len(file)) = file
             /\ get_last_update_time(file') = last_returned
       /\ (pc # "token" /\ pc' = "token") =>
             /\ pc = "loop"
             /\ sync_last_update_time' = get_last_update_time(file)
             /\ last_returned # None => sync_last_update_time' = last_returned
       /\ (pc = "wait" /\ pc' # "wait") =>
             /\ pc' \in {"loop", "start"}
             /\ get_last_update_time(file') = last_returned
       /\ (pc = "start" /\ pc' # "start") =>
             /\ pc' = "loop"
             /\ last_update_time' = get_last_update_time(file)
             /\ last_returned # None => last_update_time' = last_returned
      ]_vars

\* the process was killed in the idle wait after a pass and is starting again
PersistedBeforeIdleWitness ==
    /\ pc = "start"
    /\ last_returned # None
    /\ last_returned % Res # 0
    /\ Len(file) = 2
    /\ file[1] # file[2]
    /\ get_last_update_time(file) = last_returned
    /\ now > InitNow

\* C13: when save_last_update_time raises in run(), run() ends: the process is
\* not in the idle wait and takes no further step, so that no wait and no
\* token, enumeration, fetch or push call follows.
PersistenceFailureIsFatal ==
    fail_step = "save" =>
        /\ pc = "crashed"
        /\ ~ENABLED Next

PersistenceFailureWitness ==
    /\ fail_step = "save"
    /\ pc = "crashed"
    /\ exception = "None"
    /\ applied # <<>>
    /\ last_update_time # get_last_update_time(file)

\* C14: after a pass that returned a failure the idle time of run() is
\* polling_retry_minimum, however long the pass took; after a pass that
\* completed it is start_time + polling_frequency minus the clock; wait() with
\* an idle time of zero or less goes on to the next pass without sleeping, and
\* otherwise sleeps the idle time.
IdleTimeDecision ==
    /\ pc \in {"save", "wait"} =>
           remaining_time = IF exception # "None" THEN PollingRetryMinimum
                            ELSE start_time + PollingFrequency - now
    /\ (pc = "wait" /\ remaining_time <= 0) =>
           /\ ENABLED (Wait /\ now' = now /\ pc' = "loop")
           /\ ~ENABLED (Wait /\ now' # now)
    /\ (pc = "wait" /\ remaining_time > 0) =>
           ~ENABLED (Wait /\ now' # now + remaining_time)

IdleTimeDecisionWitness ==
    /\ pc = "wait"
    /\ exception # "None"
    /\ now - start_time > PollingFrequency
    /\ now - start_time > PollingRetryMinimum
    /\ ENABLED (Wait /\ now' = now + PollingRetryMinimum)

\* C15: the checkpoint file is an append-only log: a step that changes it adds
\* one line and leaves every earlier line as it was, and get_last_update_time
\* of the new file is exactly the watermark that was saved, with or without a
\* fraction of a second; run() loads the default from an empty file and the
\* watermark of the last line otherwise.
AppendOnlyLog ==
    [][/\ file' # file =>
             /\ Len(file') = Len(file) + 1
             /\ \A i \in 1..Len(file) : file'[i] = file[i]
             /\ get_last_update_time(file') = last_update_time
       /\ (pc = "start" /\ pc' = "loop") =>
             last_update_time' = IF file = <<>> THEN DefaultUpdateTime
                                 ELSE Watermarks[Len(file)]
      ]_vars

\* a watermark with a fraction was appended after a line that holds the whole
\* second it lies in
AppendOnlyLogWitness ==
    /\ Persisted
    /\ Len(file) = 2
    /\ Watermarks[1] % Res = 0
    /\ Watermarks[2] % Res # 0
    /\ Watermarks[2] \div Res = Watermarks[1] \div Res
    /\ last_update_time = Watermarks[2]

\* the calls of a sync_video_by_id call in which none raises
ItemCallsExpected(video_id, deleted) ==
    IF deleted
    THEN <<<<"get_video_content", video_id>>, <<"delete_from_target", video_id>>>>
    ELSE <<<<"get_video_content", video_id>>, <<"convert_to_target", video_id>>,
           <<"push_to_target", video_id>>>>

\* C16: sync_video_by_id fetches the state of the video it is given once, as
\* its first call; when the state is marked Deleted it then calls
\* delete_from_target with the fetched Id and nothing else, otherwise
\* convert_to_target and then push_to_target, once each, and never
\* delete_from_target; a call that raises is the last call made, and the
\* failure reaches sync(), which ends the pass with it.
ItemSyncDiscipline ==
    item_log # NoItem =>
        LET calls == item_log.calls
            expected == ItemCallsExpected(item_log.video_id, item_log.Deleted)
        IN  /\ calls # <<>>
            /\ calls[1] = <<"get_video_content", item_log.video_id>>
            /\ \A i \in 2..Len(calls) : calls[i][1] # "get_video_content"
            /\ Len(calls) <= Len(expected)
            /\ calls = SubSeq(expected, 1, Len(calls))
            /\ ~item_log.raised => /\ calls = expected
                                   /\ pc = "sleep"
                                   /\ LastApplied = item_log.video_id
            /\ item_log.raised => /\ pc = "return"
                                  /\ exception # "None"
                                  /\ fail_step = "item"
                                  /\ sync_calls = Len(applied) + 1

\* the delete of a video marked Deleted raised
ItemSyncDisciplineWitness ==
    /\ item_log.Deleted
    /\ item_log.raised
    /\ item_log.calls[Len(item_log.calls)][1] = "delete_from_target"
    /\ item_log.video_id \notin synced
    /\ pc = "return"

\* C17: after a pass that failed on a record, the listing from the watermark
\* the pass returned, from which the next pass starts, holds the failing record
\* and every record the listing of the failed pass held after it.
FailedRecordsListedAgain ==
    (pc \in {"save", "wait"} /\ fail_step = "item") =>
        LET listing == Listing(catalog, sync_last_update_time)
        IN  \A i \in (Len(applied) + 1)..Len(listing) :
                catalog[listing[i]] >= last_update_time

\* C18: in a pass sync_video_by_id is called for the records in the order of
\* the listing, page after page, once for each record at most; a page is
\* requested only when every record of the pages before it has had its call;
\* after a call that raised, the pass makes no further sync_video_by_id call
\* and no further get_ids_to_update call.
InListingOrder ==
    pc # "crashed" =>
        LET listing == Listing(catalog, sync_last_update_time)
            failed == IF fail_step = "item" THEN 1 ELSE 0
        IN  /\ Len(applied) <= Len(listing)
            /\ applied = SubSeq(listing, 1, Len(applied))
            /\ sync_calls = Len(applied) + failed
            /\ sync_calls + Len(updates) = received + failed
            /\ updates = SubSeq(listing, received - Len(updates) + 1, received)
            /\ pc = "enumerate" => /\ updates = <<>>
                                   /\ sync_calls = received
            /\ fail_step = "item" =>
                   /\ pc \in {"return", "save", "wait"}
                   /\ Head(updates) = listing[Len(applied) + 1]
                   /\ enum_calls = Len(enum_log)
                   /\ ~LastResponse.raised

\* the first record of the second page failed, with a record behind it
InListingOrderWitness ==
    /\ pc = "return"
    /\ fail_step = "item"
    /\ enum_calls = 2
    /\ applied # <<>>
    /\ Len(updates) = 2
    /\ sync_calls < received

\* C19: in every pass the first get_ids_to_update call has a null cursor, each
\* later call has the NextToken the call before it answered with, and every
\* call has the input watermark of the pass as fromDate, whatever the
\* candidate watermark has become; the checkpoint file holds watermarks only.
CursorDiscipline ==
    /\ \A i \in 1..Len(enum_log) :
           /\ enum_log[i].from_date = sync_last_update_time
           /\ enum_log[i].next_token = IF i = 1 THEN None
                                       ELSE enum_log[i - 1].NextToken
    /\ pc = "enumerate" =>
           next_token = IF enum_log = <<>> THEN None ELSE LastResponse.NextToken
    /\ \A i \in 1..Len(file) : file[i] = isoformat(Watermarks[i])

\* a second page was asked for after the candidate watermark had moved
CursorDisciplineWitness ==
    /\ Len(enum_log) = 2
    /\ ~LastResponse.raised
    /\ LastResponse.next_token # None
    /\ new_last_update_time # sync_last_update_time
    /\ Len(applied) = enum_log[1].NextToken
    /\ updates # <<>>
    /\ pc = "apply"

\* C20: in a pass every sync_video_by_id call that succeeds is followed by one
\* time.sleep(2) before anything else happens, so that as many sleeps as
\* successful calls lie before every later call of the pass and the clock has
\* moved by the delay for each; a sync_video_by_id call that raises is not
\* followed by a sleep.
DelayAfterEachItem ==
    /\ sleeps = IF pc = "sleep" THEN Len(applied) - 1 ELSE Len(applied)
    /\ now >= sync_start_time + sleeps * ItemDelay * Res
    /\ pc = "sleep" =>
           /\ ~item_log.raised
           /\ ~ENABLED (Next /\ sleeps' = sleeps)
           /\ ~ENABLED (Sleep /\ now' # now + ItemDelay * Res)
    /\ (pc \in {"return", "save", "wait"} /\ fail_step = "item") =>
           sleeps = sync_calls - 1

\* the third sync_video_by_id call of a pass raised
DelayAfterEachItemWitness ==
    /\ pc = "return"
    /\ fail_step = "item"
    /\ sync_calls = 3
    /\ sleeps = 2
    /\ item_log.raised

====
